---------------------------- MODULE Spec2Model ----------------------------
(***************************************************************************)
(* A model of two classes of subuser:                                      *)
(*                                                                         *)
(*   XpraX11Bridge  (subuserlib/classes/subuserSubmodules/run/x11Bridge.py)*)
(*   InstalledImage (subuserlib/classes/installedImage.py)                 *)
(*                                                                         *)
(* The bridge is modelled as a state machine over the subuser registry,    *)
(* the bridge-private volume directory, the container engine and the       *)
(* service status mapping (specification Spec).  The installed image is    *)
(* modelled over the engine's image metadata and the set of registered     *)
(* images (specification SpecLineage) and over the update memo of one      *)
(* entry (specification SpecUpdates).                                      *)
(***************************************************************************)
EXTENDS Integers, Sequences, FiniteSets, TLC

(***************************************************************************)
(* Bounds of the model.                                                    *)
(***************************************************************************)
\* containers the engine can create in one behaviour (two per start)
MaxContainers == 4
\* setup calls in one behaviour
MaxSetupCalls == 2
\* image ids known to the model
MaxImages == 3
\* checkForUpdates calls on the entry in one behaviour
MaxUpdateCalls == 3
\* the largest exit status a container returns
MaxExit == 2
\* privileged cleanup containers of one call that remove nothing
MaxRmFailures == 1
\* records in the runtime-cache directory of the image
MaxRecords == 2
\* processes that call removeCachedRuntimes on the image
MaxProcs == 2

(***************************************************************************)
(* Names.                                                                  *)
(***************************************************************************)
\* x11Bridge.py:179, the status key of the server-role container
ServerCidKey == "xpra-server-service-cid"
\* x11Bridge.py:189, the status key of the client-role container
ClientCidKey == "xpra-client-service-cid"
StatusKeys == {ServerCidKey, ClientCidKey}

\* x11Bridge.py:97-98, the registry name of the server-role helper
getServerSubuserName == "!service-subuser-owner-xpra-server"
\* x11Bridge.py:111-112, the registry name of the client-role helper
getClientSubuserName == "!service-subuser-owner-xpra-client"
HelperNames == {getServerSubuserName, getClientSubuserName}

\* x11Bridge.py:108 and 118, the catalog entries the helpers are made from
ServerImageSource == "subuser-internal-xpra-server"
ClientImageSource == "subuser-internal-xpra-client"
ImageSources == {ServerImageSource, ClientImageSource}

\* x11Bridge.py:170 and 204, the debug override
DebugVar == "SUBUSER_DEBUG_XPRA"

\* no container: a status key that is not set
NoCid == 0
Cids == 1..MaxContainers

VARIABLES
  subusers,          \* names in getUser().getRegistry().getSubusers()
  serviceSubusers,   \* the owner's service subuser list (addServiceSubuser)
  createCalls,       \* create-instance invocations per helper name
  setupCalls,        \* setup calls made so far
  firstSetup,        \* how the first setup call ended: "returned" | "raised"
  environ,           \* os.environ, restricted to the debug override
  volume,            \* the bridge-private volume directory tree
  containers,        \* the engine: cid -> "absent" | "stopped" | "running"
  created,           \* number of containers the engine has created
  serviceStatus,     \* the caller's status mapping: key -> cid or NoCid
  pc,                \* position of the control thread inside start or stop
  op,                \* the last bridge operation that ended
  ret,               \* how it ended
  exited,            \* a recorded helper container has ended on its own since
                     \* the server-role helper was last launched
  volumesCall,       \* the last createAndSetupSpecialVolumes call of start
  imageProperties,   \* the engine's image metadata, by image id
  installedImages,   \* ids registered in getUser().getInstalledImages()
  imageId,           \* the imageId of the InstalledImage entry
  alreadyCheckedForUpdates, \* the entry's memo flag
  updateCalls,       \* checkForUpdates calls made on the entry
  testRuns,          \* executions of /usr/bin/test -e /subuser/check-for-updates
  scriptRuns,        \* executions of /subuser/check-for-updates
  updateInput,       \* what the catalog and the engine answered the last call
  imageOp,           \* the last InstalledImage operation
  imageRet,          \* its result
  cacheDir,          \* <runtime-cache>/<imageId> exists
  cacheRecords,      \* the record files in it
  engineImages,      \* run-ready images the engine has
  imagesInUse,       \* run-ready images a container depends on
  callers,           \* the processes that call removeCachedRuntimes
  cachePc,           \* position of each process inside removeCachedRuntimes
  cacheListing,      \* what is left of each process's os.listdir result
  cacheListed,       \* each process's os.listdir result, as a set
  cacheResult        \* how each process's call ended

registryVars == <<subusers, serviceSubusers, createCalls, setupCalls,
                  firstSetup>>
bridgeVars == <<registryVars, environ, volume,
                containers, created, serviceStatus, pc, op, ret, exited,
                volumesCall>>
entryVars == <<imageProperties, installedImages, imageId,
               alreadyCheckedForUpdates, updateCalls, testRuns, scriptRuns,
               updateInput, imageOp, imageRet>>
cacheVars == <<cacheDir, cacheRecords, engineImages, imagesInUse, callers,
               cachePc, cacheListing, cacheListed, cacheResult>>
imageVars == <<entryVars, cacheVars>>
vars == <<bridgeVars, imageVars>>

(***************************************************************************)
(* The bridge-private volume directory.                                    *)
(*                                                                         *)
(* volume.vol  : <volumes-dir>/xpra/<subuser> exists                       *)
(* volume.x11  : the tree <vol>/tmp/.X11-unix with its socket X100         *)
(* volume.home : the tree <vol>/xpra-home with its socket .xpra/<host>-100 *)
(* A tree is "none" (absent), "empty" (the directory, no socket),          *)
(* "socket" (socket present, the invoking user can delete it) or           *)
(* "rootsocket" (socket present inside an entry the server helper made     *)
(* that the invoking user cannot delete).                                  *)
(***************************************************************************)
Trees == {"none", "empty", "socket", "rootsocket"}
TreeNames == {"x11", "home"}
NoVolume == [vol |-> FALSE, x11 |-> "none", home |-> "none"]

\* os.path.exists(directory) for the two directories mkdirs is called on
exists(v, d) == v[d] # "none"
\* os.path.exists of the socket file inside a tree
socketExists(v, d) == v[d] \in {"socket", "rootsocket"}
other(d) == IF d = "x11" THEN "home" ELSE "x11"


(***************************************************************************)
(* cleanUp: shutil.rmtree of the volume directory, any OSError swallowed.  *)
(* rmtree deletes the children in the order the directory listing gives    *)
(* them (first, then the other) and raises at the first entry it cannot    *)
(* delete, leaving what it had not yet reached.                            *)
(***************************************************************************)
rmtreeChild(r, d) ==
  IF r.raised # "" THEN r
  ELSE IF r.v[d] = "rootsocket" THEN [r EXCEPT !.raised = "OSError"]
  ELSE [r EXCEPT !.v[d] = "none"]

\* rmtree that unlinks the volume directory and leaves what is inside
rmtreeUnlinksOnlyTop(v, first) ==
  IF ~v.vol THEN [v |-> v, raised |-> "OSError"]
  ELSE [v |-> [v EXCEPT !.vol = FALSE], raised |-> ""]

rmtree(v, first) ==
  IF ~v.vol THEN [v |-> v, raised |-> "OSError"]
  ELSE LET r == rmtreeChild(rmtreeChild([v |-> v, raised |-> ""], first),
                            other(first))
       IN  IF r.raised # "" THEN r ELSE [r EXCEPT !.v.vol = FALSE]

cleanUp(v, first) == rmtree(v, first).v

(***************************************************************************)
(* createAndSetupSpecialVolumes.  A call state r carries the volume        *)
(* (r.v), the exception in flight (r.raised, "" for none), the number of   *)
(* privileged cleanup containers run so far (r.cleanups), whether the      *)
(* server-role helper is registered (r.server, read by getServerSubuser)   *)
(* and how many of the next privileged containers end without having       *)
(* removed anything (r.rmFails): execute returns the container's exit      *)
(* status and line 132 does not read it.                                   *)
(***************************************************************************)
RECURSIVE createAndSetupSpecialVolumes(_)

\* os.makedirs(directory), without exist_ok: an existing directory raises
makedirs(r, d) ==
  IF exists(r.v, d) THEN [r EXCEPT !.raised = "OSError"]
  ELSE [r EXCEPT !.v[d] = "empty", !.v.vol = TRUE]

\* what the privileged container's rm -r leaves of the volume
privilegedRm(r) ==
  IF r.rmFails > 0
  THEN [r EXCEPT !.rmFails = r.rmFails - 1, !.cleanups = r.cleanups + 1]
  ELSE [r EXCEPT !.v.x11 = "none", !.v.home = "none",
                 !.cleanups = r.cleanups + 1]

\* the privileged container runs rm -r on both trees, then the whole
\* procedure is called again
clearAndTryAgain(r) ==
  IF ~r.server THEN [r EXCEPT !.raised = "KeyError"]
  ELSE createAndSetupSpecialVolumes(privilegedRm(r))

mkdirs(r, d) ==
  IF r.raised # "" THEN r
  ELSE IF exists(r.v, d)
       THEN LET t == clearAndTryAgain(r)
            IN  IF t.raised # "" THEN t ELSE makedirs(t, d)
       ELSE makedirs(r, d)

\* os.chmod raises EPERM only on a directory the caller does not own; the
\* directory was made by this call's own os.makedirs
chmodNotPermitted(r) == FALSE

createAndSetupSpecialVolumes(r) ==
  LET m == mkdirs(mkdirs(r, "x11"), "home")
  IN  IF m.raised # "" THEN m
      ELSE IF chmodNotPermitted(m) THEN clearAndTryAgain(m)
      ELSE m

(***************************************************************************)
(* isSetup and setup.                                                      *)
(***************************************************************************)
\* isSetup with "or" for "and"
isSetupEither(names) ==
  getClientSubuserName \in names \/ getServerSubuserName \in names

isSetup(names) ==
  LET clientSubuserInstalled == getClientSubuserName \in names
      serverSubuserInstalled == getServerSubuserName \in names
  IN  clientSubuserInstalled /\ serverSubuserInstalled

\* create-instance-from-catalog-entry: counts the invocation and registers
\* the name
addFromImageSourceNoVerify(g, name) ==
  [g EXCEPT !.createCalls[name] = @ + 1, !.subusers = @ \cup {name}]

\* add one helper: the catalog lookup is an argument of the call, so a
\* missing catalog entry raises before create-instance is invoked
addHelperSubuser(g, name, source, catalog) ==
  IF g.raised # "" THEN g
  ELSE IF source \notin catalog THEN [g EXCEPT !.raised = "KeyError"]
  ELSE [addFromImageSourceNoVerify(g, name)
          EXCEPT !.serviceSubusers = Append(@, name)]

addServerSubuser(g, catalog) ==
  addHelperSubuser(g, getServerSubuserName, ServerImageSource, catalog)

addClientSubuser(g, catalog) ==
  addHelperSubuser(g, getClientSubuserName, ClientImageSource, catalog)

\* setup without the isSetup guard
setupUnguarded(g, verify, catalog) ==
  LET c == addClientSubuser(addServerSubuser(g, catalog), catalog)
  IN  IF c.raised # "" THEN c
      ELSE [c EXCEPT !.ret = IF verify THEN "None" ELSE "newSubuserNames"]

setup(g, verify, catalog) ==
  IF ~isSetup(g.subusers)
  THEN LET c == addClientSubuser(addServerSubuser(g, catalog), catalog)
       IN  IF c.raised # "" THEN c
           ELSE [c EXCEPT !.ret = IF verify THEN "None" ELSE "newSubuserNames"]
  ELSE [g EXCEPT !.ret = "None"]

(***************************************************************************)
(* The container engine as the bridge uses it.                             *)
(***************************************************************************)
\* getContainer(cid).stop(): a running container ends; the engine keeps it
\* as a stopped container or discards it
stopContainer(e, cid, discard) ==
  IF e[cid] = "running"
  THEN [e EXCEPT ![cid] = IF discard THEN "absent" ELSE "stopped"]
  ELSE e

\* isContainerRunning with the test of State.Running inverted
isContainerRunningInverted(e, cid) ==
  IF e[cid] = "absent" THEN [ret |-> FALSE, e |-> e]
  ELSE IF e[cid] = "running"
       THEN [ret |-> FALSE, e |-> [e EXCEPT ![cid] = "absent"]]
       ELSE [ret |-> TRUE, e |-> e]

isContainerRunning(e, cid) ==
  IF e[cid] = "absent" THEN [ret |-> FALSE, e |-> e]
  ELSE IF e[cid] # "running"
       THEN [ret |-> FALSE, e |-> [e EXCEPT ![cid] = "absent"]]
       ELSE [ret |-> TRUE, e |-> e]

\* a and b: the second operand is evaluated only when the first is true
isRunning(status, e) ==
  IF status[ClientCidKey] = NoCid THEN [ret |-> "KeyError", e |-> e]
  ELSE LET c == isContainerRunning(e, status[ClientCidKey])
       IN  IF ~c.ret THEN [ret |-> "False", e |-> c.e]
           ELSE IF status[ServerCidKey] = NoCid
                THEN [ret |-> "KeyError", e |-> c.e]
                ELSE LET s == isContainerRunning(c.e, status[ServerCidKey])
                     IN  [ret |-> IF s.ret THEN "True" ELSE "False",
                          e |-> s.e]

(***************************************************************************)
(* Initial state of the bridge: nothing registered, no volume directory,   *)
(* no container, an empty status mapping; the debug override is set or not.*)
(***************************************************************************)
NoVolumesCall == [stale |-> FALSE, raised |-> "", cleanups |-> 0]

InitBridge ==
  /\ subusers = {}
  /\ serviceSubusers = <<>>
  /\ createCalls = [n \in HelperNames |-> 0]
  /\ setupCalls = 0
  /\ firstSetup = "none"
  /\ volume = NoVolume
  /\ containers = [c \in Cids |-> "absent"]
  /\ created = 0
  /\ serviceStatus = [k \in StatusKeys |-> NoCid]
  /\ pc = "idle"
  /\ op = "none"
  /\ ret = "none"
  /\ exited = FALSE
  /\ volumesCall = NoVolumesCall

\* an operation of the bridge ends: op and ret record it
Ends(name, result) ==
  /\ op' = name
  /\ ret' = result

(***************************************************************************)
(* setup(verify), with the catalog ("default" repository) as it is at the  *)
(* call.                                                                   *)
(***************************************************************************)
Setup ==
  /\ pc = "idle"
  /\ setupCalls < MaxSetupCalls
  /\ \E verify \in BOOLEAN, catalog \in SUBSET ImageSources :
       LET g == setup([subusers |-> subusers,
                       serviceSubusers |-> serviceSubusers,
                       createCalls |-> createCalls,
                       raised |-> "", ret |-> "None"], verify, catalog)
       IN  /\ subusers' = g.subusers
           /\ serviceSubusers' = g.serviceSubusers
           /\ createCalls' = g.createCalls
           /\ Ends("setup", IF g.raised # "" THEN g.raised ELSE g.ret)
           /\ firstSetup' = IF setupCalls > 0 THEN firstSetup
                            ELSE IF g.raised # "" THEN "raised"
                            ELSE "returned"
  /\ setupCalls' = setupCalls + 1
  /\ UNCHANGED <<environ, volume, containers, created, serviceStatus, pc,
                 exited, volumesCall, imageVars>>

(***************************************************************************)
(* start(serviceStatus), in the order of its statements.                   *)
(***************************************************************************)
\* line 155: self.cleanUp()
StartCleanUp ==
  /\ pc = "idle"
  /\ created + 2 <= MaxContainers
  /\ \E first \in TreeNames : volume' = cleanUp(volume, first)
  /\ pc' = "createVolumes"
  /\ UNCHANGED <<registryVars, environ, containers,
                 created, serviceStatus, op, ret, exited,
                 volumesCall, imageVars>>

\* line 156: self.createAndSetupSpecialVolumes()
StartCreateVolumes ==
  /\ pc = "createVolumes"
  /\ \E rmFails \in 0..MaxRmFailures :
     LET r == createAndSetupSpecialVolumes(
                [v |-> volume, raised |-> "", cleanups |-> 0,
                 server |-> getServerSubuserName \in subusers,
                 rmFails |-> rmFails])
     IN  /\ volume' = r.v
         /\ volumesCall' = [stale |-> exists(volume, "x11")
                                        \/ exists(volume, "home"),
                            raised |-> r.raised,
                            cleanups |-> r.cleanups]
         /\ IF r.raised # ""
            THEN pc' = "idle" /\ Ends("start", r.raised)
            ELSE pc' = "launchServer" /\ UNCHANGED <<op, ret>>
  /\ UNCHANGED <<registryVars, environ, containers,
                 created, serviceStatus, exited, imageVars>>

\* lines 157-179: the server-role helper is launched in the background and
\* its container identity recorded
StartLaunchServer ==
  /\ pc = "launchServer"
  /\ IF getServerSubuserName \notin subusers
     THEN /\ pc' = "idle"
          /\ Ends("start", "KeyError")
          /\ UNCHANGED <<containers, created, serviceStatus, exited>>
     ELSE /\ created' = created + 1
          /\ containers' = [containers EXCEPT ![created + 1] = "running"]
          /\ serviceStatus' =
               [serviceStatus EXCEPT ![ServerCidKey] = created + 1]
          /\ exited' = FALSE
          /\ pc' = "wait"
          /\ UNCHANGED <<op, ret>>
  /\ UNCHANGED <<registryVars, environ, volume,
                 volumesCall, imageVars>>

\* lines 192-196 without the poll: the wait returns at once
waitWithoutPolling ==
  /\ pc = "wait"
  /\ pc' = "launchClient"
  /\ UNCHANGED <<registryVars, environ, volume,
                 containers, created, serviceStatus, op, ret, exited,
                 volumesCall, imageVars>>

\* the poll of lines 192-196 with "or" in place of "and"
waitForEitherSocket ==
  /\ pc = "wait"
  /\ socketExists(volume, "x11") \/ socketExists(volume, "home")
  /\ pc' = "launchClient"
  /\ UNCHANGED <<registryVars, environ, volume,
                 containers, created, serviceStatus, op, ret, exited,
                 volumesCall, imageVars>>

\* lines 192-196: the poll that finds both socket files
waitForServerContainerToLaunch ==
  /\ pc = "wait"
  /\ socketExists(volume, "x11") /\ socketExists(volume, "home")
  /\ pc' = "launchClient"
  /\ UNCHANGED <<registryVars, environ, volume,
                 containers, created, serviceStatus, op, ret, exited,
                 volumesCall, imageVars>>

\* lines 181-190: the client-role helper is launched and recorded
StartLaunchClient ==
  /\ pc = "launchClient"
  /\ pc' = "idle"
  /\ IF getClientSubuserName \notin subusers
     THEN /\ Ends("start", "KeyError")
          /\ UNCHANGED <<containers, created, serviceStatus>>
     ELSE /\ created' = created + 1
          /\ containers' = [containers EXCEPT ![created + 1] = "running"]
          /\ serviceStatus' =
               [serviceStatus EXCEPT ![ClientCidKey] = created + 1]
          /\ Ends("start", "serviceStatus")
  /\ UNCHANGED <<registryVars, environ, volume,
                 exited, volumesCall, imageVars>>

(***************************************************************************)
(* stop(serviceStatus), in the order of its statements.                    *)
(***************************************************************************)
\* line 202
StopClient ==
  /\ pc = "idle"
  /\ IF serviceStatus[ClientCidKey] = NoCid
     THEN /\ Ends("stop", "KeyError")
          /\ UNCHANGED <<containers, pc>>
     ELSE /\ \E discard \in BOOLEAN :
               containers' = stopContainer(containers,
                                           serviceStatus[ClientCidKey], discard)
          /\ pc' = "stopServer"
          /\ UNCHANGED <<op, ret>>
  /\ UNCHANGED <<registryVars, environ, volume,
                 created, serviceStatus, exited, volumesCall, imageVars>>

\* line 203
StopServer ==
  /\ pc = "stopServer"
  /\ IF serviceStatus[ServerCidKey] = NoCid
     THEN /\ pc' = "idle"
          /\ Ends("stop", "KeyError")
          /\ UNCHANGED containers
     ELSE /\ \E discard \in BOOLEAN :
               containers' = stopContainer(containers,
                                           serviceStatus[ServerCidKey], discard)
          /\ pc' = "stopCleanUp"
          /\ UNCHANGED <<op, ret>>
  /\ UNCHANGED <<registryVars, environ, volume,
                 created, serviceStatus, exited, volumesCall, imageVars>>

\* lines 204-205 without the test of the debug override
StopCleanUpAlways ==
  /\ pc = "stopCleanUp"
  /\ \E first \in TreeNames : volume' = cleanUp(volume, first)
  /\ pc' = "idle"
  /\ Ends("stop", "None")
  /\ UNCHANGED <<registryVars, environ, containers,
                 created, serviceStatus, exited, volumesCall, imageVars>>

\* lines 204-205
StopCleanUp ==
  /\ pc = "stopCleanUp"
  /\ IF DebugVar \notin environ
     THEN \E first \in TreeNames : volume' = cleanUp(volume, first)
     ELSE volume' = volume
  /\ pc' = "idle"
  /\ Ends("stop", "None")
  /\ UNCHANGED <<registryVars, environ, containers,
                 created, serviceStatus, exited, volumesCall, imageVars>>

(***************************************************************************)
(* isRunning(serviceStatus) and cleanUp().                                 *)
(***************************************************************************)
IsRunning ==
  /\ pc = "idle"
  /\ LET r == isRunning(serviceStatus, containers)
     IN  /\ containers' = r.e
         /\ Ends("isRunning", r.ret)
  /\ UNCHANGED <<registryVars, environ, volume,
                 created, serviceStatus, pc, exited, volumesCall, imageVars>>

CleanUp ==
  /\ pc = "idle"
  /\ \E first \in TreeNames : volume' = cleanUp(volume, first)
  /\ Ends("cleanUp", "None")
  /\ UNCHANGED <<registryVars, environ, containers,
                 created, serviceStatus, pc, exited, volumesCall, imageVars>>

\* cleanUp() run by another process on the same subuser, at any point of
\* this process's start: its own cleanUp call, the first statement of its
\* start (line 155) or the last of its stop (line 205); no lock is taken
OtherProcessCleanUp ==
  /\ \E first \in TreeNames : volume' = cleanUp(volume, first)
  /\ UNCHANGED <<registryVars, environ, containers,
                 created, serviceStatus, pc, op, ret, exited,
                 volumesCall, imageVars>>

(***************************************************************************)
(* The helpers' own behaviour, outside the control thread.                 *)
(***************************************************************************)
\* the running server-role helper makes one of the two socket files start
\* waits for; the entry it makes can or cannot be deleted by the invoking
\* user (lines 132-135 and 194)
ServerCreatesSocket ==
  /\ serviceStatus[ServerCidKey] # NoCid
  /\ containers[serviceStatus[ServerCidKey]] = "running"
  /\ \E d \in TreeNames, kind \in {"socket", "rootsocket"} :
       /\ volume[d] = "empty"
       /\ volume' = [volume EXCEPT ![d] = kind]
  /\ UNCHANGED <<registryVars, environ, containers,
                 created, serviceStatus, pc, op, ret, exited,
                 volumesCall, imageVars>>

\* a running helper container ends on its own; the engine keeps it as a
\* stopped container or discards it (lines 211-217 tell the two apart)
ContainerExits ==
  /\ \E cid \in Cids, discard \in BOOLEAN :
       /\ containers[cid] = "running"
       /\ containers' = stopContainer(containers, cid, discard)
       /\ exited' = (exited \/ \E k \in StatusKeys : serviceStatus[k] = cid)
  /\ UNCHANGED <<registryVars, environ, volume,
                 created, serviceStatus, pc, op, ret, volumesCall,
                 imageVars>>

(***************************************************************************)
(* InstalledImage: lineage.                                                *)
(*                                                                         *)
(* imageProperties[i] is what getImageProperties(i) returns: known = FALSE *)
(* for None, otherwise the metadata with its "Parent" field, NoParent for  *)
(* the empty string.                                                       *)
(***************************************************************************)
Images == 1..MaxImages
NoParent == 0
Properties ==
  [known : {TRUE}, Parent : Images \cup {NoParent}]
    \cup {[known |-> FALSE, Parent |-> NoParent]}

RECURSIVE getLineageRecursive(_, _)

\* getLineageRecursive with the image put before its ancestors
getLineageRecursiveSelfFirst(props, id) ==
  IF ~props[id].known THEN <<>>
  ELSE IF props[id].Parent # NoParent
       THEN <<id>> \o getLineageRecursive(props, props[id].Parent)
       ELSE <<id>>

\* getLineageRecursive with an image without metadata kept in the result
getLineageRecursiveKeepsUnknown(props, id) ==
  IF ~props[id].known THEN <<id>>
  ELSE IF props[id].Parent # NoParent
       THEN getLineageRecursive(props, props[id].Parent) \o <<id>>
       ELSE <<id>>

getLineageRecursive(props, id) ==
  IF ~props[id].known THEN <<>>
  ELSE IF props[id].Parent # NoParent
       THEN getLineageRecursive(props, props[id].Parent) \o <<id>>
       ELSE <<id>>

getLineageLayers(props, id) == getLineageRecursive(props, id)

\* getUser().getInstalledImages()[layer]: the registered entry of that id
InstalledImage(layer) == [imageId |-> layer]

RECURSIVE appendRegistered(_, _, _)

\* the loop of getImageLineage without the membership test
appendEveryLayer(layers, registered, i) ==
  IF i > Len(layers) THEN <<>>
  ELSE <<InstalledImage(layers[i])>>
         \o appendRegistered(layers, registered, i + 1)

\* the loop of getImageLineage over the layers from position i on
appendRegistered(layers, registered, i) ==
  IF i > Len(layers) THEN <<>>
  ELSE IF layers[i] \in registered
       THEN <<InstalledImage(layers[i])>>
              \o appendRegistered(layers, registered, i + 1)
       ELSE appendRegistered(layers, registered, i + 1)

getImageLineage(props, registered, id) ==
  LET dockerImageLayers == getLineageLayers(props, id)
  IN  appendRegistered(dockerImageLayers, registered, 1)

\* the images reached from the ids of s by at most k parent links
RECURSIVE Ancestry(_, _, _)
Ancestry(props, s, k) ==
  IF k = 0 THEN s
  ELSE Ancestry(props,
                s \cup ({props[i].Parent : i \in {j \in s : props[j].known}}
                          \ {NoParent}),
                k - 1)

\* the engine's parent metadata has no cycle: no image is its own ancestor
Acyclic(props) ==
  \A i \in Images :
    props[i].known /\ props[i].Parent # NoParent
      => i \notin Ancestry(props, {props[i].Parent}, MaxImages)

InitLineage ==
  /\ imageProperties \in {p \in [Images -> Properties] : Acyclic(p)}
  /\ installedImages \in SUBSET Images
  /\ imageId \in Images

GetLineageLayers ==
  /\ imageOp' = "getLineageLayers"
  /\ imageRet' = getLineageLayers(imageProperties, imageId)
  /\ UNCHANGED <<bridgeVars, imageProperties, installedImages, imageId,
                 alreadyCheckedForUpdates, updateCalls, testRuns, scriptRuns,
                 updateInput, cacheVars>>

GetImageLineage ==
  /\ imageOp' = "getImageLineage"
  /\ imageRet' = getImageLineage(imageProperties, installedImages, imageId)
  /\ UNCHANGED <<bridgeVars, imageProperties, installedImages, imageId,
                 alreadyCheckedForUpdates, updateCalls, testRuns, scriptRuns,
                 updateInput, cacheVars>>

(***************************************************************************)
(* InstalledImage: checkForUpdates.                                        *)
(*                                                                         *)
(* An input of a call is what the collaborators answer during it:          *)
(* source (the catalog has the image source), test (exit status of the     *)
(* existence probe) and script (exit status the update script would give). *)
(***************************************************************************)
ExitStatus == 0..MaxExit
UpdateInputs == [source : BOOLEAN, test : ExitStatus, script : ExitStatus]
NoUpdateInput == [source |-> TRUE, test |-> 0, script |-> 0]

\* checkForUpdates without the memo test of line 81
checkForUpdatesUnmemoized(m, answers) ==
  LET marked == [m EXCEPT !.already = "True"]
  IN  IF ~answers.source THEN [marked EXCEPT !.ret = "KeyError"]
      ELSE LET probed == [marked EXCEPT !.testRuns = @ + 1]
           IN  IF answers.test = 0
               THEN [probed EXCEPT
                       !.scriptRuns = @ + 1,
                       !.ret = IF answers.script = 0 THEN "True" ELSE "False"]
               ELSE [probed EXCEPT !.ret = "False"]

\* checkForUpdates without the existence probe of line 85
checkForUpdatesUnprobed(m, answers) ==
  IF m.already = "True" THEN [m EXCEPT !.ret = "False"]
  ELSE LET marked == [m EXCEPT !.already = "True"]
       IN  IF ~answers.source THEN [marked EXCEPT !.ret = "KeyError"]
           ELSE [marked EXCEPT
                   !.scriptRuns = @ + 1,
                   !.ret = IF answers.script = 0 THEN "True" ELSE "False"]

\* m: the entry's memo flag and the engine's run counters
checkForUpdates(m, answers) ==
  IF m.already = "True" THEN [m EXCEPT !.ret = "False"]
  ELSE LET marked == [m EXCEPT !.already = "True"]
       IN  IF ~answers.source THEN [marked EXCEPT !.ret = "KeyError"]
           ELSE LET probed == [marked EXCEPT !.testRuns = @ + 1]
                IN  IF answers.test = 0
                    THEN [probed EXCEPT
                            !.scriptRuns = @ + 1,
                            !.ret = IF answers.script = 0 THEN "True" ELSE "False"]
                    ELSE [probed EXCEPT !.ret = "False"]

InitUpdates ==
  /\ alreadyCheckedForUpdates = "None"
  /\ updateCalls = 0
  /\ testRuns = 0
  /\ scriptRuns = 0
  /\ updateInput = NoUpdateInput

CheckForUpdates ==
  /\ updateCalls < MaxUpdateCalls
  /\ \E answers \in UpdateInputs :
       LET m == checkForUpdates([already |-> alreadyCheckedForUpdates,
                                 testRuns |-> testRuns,
                                 scriptRuns |-> scriptRuns,
                                 ret |-> "None"], answers)
       IN  /\ alreadyCheckedForUpdates' = m.already
           /\ testRuns' = m.testRuns
           /\ scriptRuns' = m.scriptRuns
           /\ imageRet' = m.ret
           /\ updateInput' = answers
  /\ updateCalls' = updateCalls + 1
  /\ imageOp' = "checkForUpdates"
  /\ UNCHANGED <<bridgeVars, imageProperties, installedImages, imageId,
                 cacheVars>>

(***************************************************************************)
(* InstalledImage: removeCachedRuntimes.                                   *)
(*                                                                         *)
(* The runtime-cache directory of the image holds one record file per      *)
(* permission set; the record names the run-ready image made for it.  Each *)
(* calling process goes through lines 40-57 one system call or engine call *)
(* at a time.                                                              *)
(***************************************************************************)
Records == 1..MaxRecords
Procs == 1..MaxProcs

\* permissionsSpecificCacheInfo['run-ready-image-id'] of a record
runReadyImageId(record) == record

\* the orders os.listdir can give the entries of a directory in
RECURSIVE listdir(_)
listdir(files) ==
  IF files = {} THEN {<<>>}
  ELSE UNION {{<<f>> \o rest : rest \in listdir(files \ {f})} : f \in files}

\* getDockerDaemon().removeImage(imageId)
removeImage(images, inUse, image) ==
  IF image \notin images
  THEN [images |-> images, raised |-> "ImageDoesNotExistsException"]
  ELSE IF image \in inUse
       THEN [images |-> images, raised |-> "ContainerDependsOnImageException"]
       ELSE [images |-> images \ {image}, raised |-> ""]

\* os.remove(permissionsSpecificCacheInfoFilePath)
osRemove(files, file) ==
  IF file \in files THEN [files |-> files \ {file}, raised |-> ""]
  ELSE [files |-> files, raised |-> "OSError"]

\* where the loop body goes after removeImage, without the except clause
\* of line 53: the record is deleted whatever removeImage raised
afterRemoveImageAlwaysDeletes(raised) == "osRemove"

\* where the loop body goes after removeImage: lines 50-51 let
\* ImageDoesNotExistsException fall through to os.remove (line 52), lines
\* 53-54 end the iteration on ContainerDependsOnImageException
afterRemoveImage(raised) ==
  IF raised \in {"", "ImageDoesNotExistsException"} THEN "osRemove"
  ELSE "open"

\* an exception that leaves the loop, without the except clause of line 55
uncaughtOSError(raised) == raised

\* lines 55-56: an OSError that leaves the loop ends the call normally
exceptOSError(raised) == IF raised = "OSError" THEN "returned" ELSE raised

CacheAtRest ==
  /\ cacheDir = FALSE
  /\ cacheRecords = {}
  /\ engineImages = {}
  /\ imagesInUse = {}
  /\ callers = {}
  /\ cachePc = [p \in Procs |-> "idle"]
  /\ cacheListing = [p \in Procs |-> <<>>]
  /\ cacheListed = [p \in Procs |-> {}]
  /\ cacheResult = [p \in Procs |-> "none"]

\* a cache directory with any records, whose images the engine has or has
\* lost, some of them with containers made from them
InitCache ==
  /\ cacheDir \in BOOLEAN
  /\ cacheRecords \in SUBSET Records
  /\ ~cacheDir => cacheRecords = {}
  /\ engineImages \in SUBSET {runReadyImageId(r) : r \in Records}
  /\ imagesInUse \in SUBSET engineImages
  /\ cachePc = [p \in Procs |-> "idle"]
  /\ cacheListing = [p \in Procs |-> <<>>]
  /\ cacheListed = [p \in Procs |-> {}]
  /\ cacheResult = [p \in Procs |-> "none"]

\* the call of process p ends
CacheEnds(p, result) ==
  /\ cacheResult' = [cacheResult EXCEPT ![p] = result]
  /\ cachePc' = [cachePc EXCEPT ![p] = "done"]

\* line 42: os.listdir(pathToImagesRuntimeCacheDir)
CacheListDir(p) ==
  /\ p \in callers
  /\ cachePc[p] = "idle"
  /\ IF ~cacheDir
     THEN /\ CacheEnds(p, exceptOSError("OSError"))
          /\ UNCHANGED <<cacheListing, cacheListed>>
     ELSE /\ \E names \in listdir(cacheRecords) :
               cacheListing' = [cacheListing EXCEPT ![p] = names]
          /\ cacheListed' = [cacheListed EXCEPT ![p] = cacheRecords]
          /\ cachePc' = [cachePc EXCEPT ![p] = "open"]
          /\ UNCHANGED cacheResult
  /\ UNCHANGED <<bridgeVars, entryVars, cacheDir, cacheRecords, engineImages,
                 imagesInUse, callers>>

\* lines 42-45: the next name of the listing, its file opened and read; the
\* call returns when the listing is used up
CacheOpen(p) ==
  /\ cachePc[p] = "open"
  /\ IF cacheListing[p] = <<>>
     THEN CacheEnds(p, "returned")
     ELSE IF Head(cacheListing[p]) \notin cacheRecords
          THEN CacheEnds(p, exceptOSError("OSError"))
          ELSE /\ cachePc' = [cachePc EXCEPT ![p] = "removeImage"]
               /\ UNCHANGED cacheResult
  /\ UNCHANGED <<bridgeVars, entryVars, cacheDir, cacheRecords, engineImages,
                 imagesInUse, callers, cacheListing, cacheListed>>

\* lines 48-54: the run-ready image is removed from the engine
CacheRemoveImage(p) ==
  /\ cachePc[p] = "removeImage"
  /\ LET r == removeImage(engineImages, imagesInUse,
                          runReadyImageId(Head(cacheListing[p])))
         to == afterRemoveImage(r.raised)
     IN  /\ engineImages' = r.images
         /\ cachePc' = [cachePc EXCEPT ![p] = to]
         /\ cacheListing' =
              [cacheListing EXCEPT
                 ![p] = IF to = "open" THEN Tail(@) ELSE @]
  /\ UNCHANGED <<bridgeVars, entryVars, cacheDir, cacheRecords, imagesInUse,
                 callers, cacheListed, cacheResult>>

\* line 52: the record file is deleted
CacheRemoveRecord(p) ==
  /\ cachePc[p] = "osRemove"
  /\ LET r == osRemove(cacheRecords, Head(cacheListing[p]))
     IN  /\ cacheRecords' = r.files
         /\ IF r.raised # ""
            THEN /\ CacheEnds(p, exceptOSError(r.raised))
                 /\ UNCHANGED cacheListing
            ELSE /\ cachePc' = [cachePc EXCEPT ![p] = "open"]
                 /\ cacheListing' = [cacheListing EXCEPT ![p] = Tail(@)]
                 /\ UNCHANGED cacheResult
  /\ UNCHANGED <<bridgeVars, entryVars, cacheDir, engineImages, imagesInUse,
                 callers, cacheListed>>

(***************************************************************************)
(* Specifications.                                                         *)
(***************************************************************************)
\* the image side at rest: one image without parent, registered
ImageAtRest ==
  /\ imageProperties = [i \in Images |-> [known |-> FALSE, Parent |-> NoParent]]
  /\ installedImages = {}
  /\ imageId = 1

\* the bridge
Init ==
  /\ InitBridge
  /\ environ \in SUBSET {DebugVar}
  /\ ImageAtRest
  /\ InitUpdates
  /\ imageOp = "none"
  /\ imageRet = "none"
  /\ CacheAtRest

Next ==
  \/ Setup
  \/ StartCleanUp
  \/ StartCreateVolumes
  \/ StartLaunchServer
  \/ waitForServerContainerToLaunch
  \/ StartLaunchClient
  \/ StopClient
  \/ StopServer
  \/ StopCleanUp
  \/ IsRunning
  \/ CleanUp
  \/ ServerCreatesSocket
  \/ ContainerExits

Spec == Init /\ [][Next]_vars

\* setup and start alone, the control thread scheduled fairly: the poll of
\* line 194 is tried again every 0.05 s (line 196) and the statements after
\* the wait follow it; nothing obliges the server-role helper to make its
\* socket files
NextStart ==
  \/ Setup
  \/ StartCleanUp
  \/ StartCreateVolumes
  \/ StartLaunchServer
  \/ waitForServerContainerToLaunch
  \/ StartLaunchClient
  \/ ServerCreatesSocket
  \/ ContainerExits

SpecStart ==
  /\ Init
  /\ [][NextStart]_vars
  /\ WF_vars(waitForServerContainerToLaunch)
  /\ WF_vars(StartLaunchClient)

\* setup and start of one process, interleaved with the cleanUp of another
\* process on the same subuser
NextInterleaved == NextStart \/ OtherProcessCleanUp

SpecInterleaved == Init /\ [][NextInterleaved]_vars

\* the lineage of an installed image, over every acyclic parent metadata
InitLineageSpec ==
  /\ InitBridge
  /\ environ = {}
  /\ InitLineage
  /\ InitUpdates
  /\ imageOp = "none"
  /\ imageRet = <<>>
  /\ CacheAtRest

NextLineage == GetLineageLayers \/ GetImageLineage

SpecLineage == InitLineageSpec /\ [][NextLineage]_vars

\* the update check of one installed image entry
InitUpdatesSpec ==
  /\ InitBridge
  /\ environ = {}
  /\ ImageAtRest
  /\ InitUpdates
  /\ imageOp = "none"
  /\ imageRet = "none"
  /\ CacheAtRest

NextUpdates == CheckForUpdates

SpecUpdates == InitUpdatesSpec /\ [][NextUpdates]_vars

\* removeCachedRuntimes called by one process
InitCacheSpec ==
  /\ InitBridge
  /\ environ = {}
  /\ ImageAtRest
  /\ InitUpdates
  /\ imageOp = "none"
  /\ imageRet = "none"
  /\ InitCache
  /\ callers = {1}

NextCache ==
  \E p \in Procs :
    \/ CacheListDir(p)
    \/ CacheOpen(p)
    \/ CacheRemoveImage(p)
    \/ CacheRemoveRecord(p)

SpecCache == InitCacheSpec /\ [][NextCache]_vars

\* removeCachedRuntimes called by every process at once
InitCacheConcurrent ==
  /\ InitBridge
  /\ environ = {}
  /\ ImageAtRest
  /\ InitUpdates
  /\ imageOp = "none"
  /\ imageRet = "none"
  /\ InitCache
  /\ callers = Procs

SpecCacheConcurrent == InitCacheConcurrent /\ [][NextCache]_vars

(***************************************************************************)
(* Properties of the bridge (specification Spec).                          *)
(***************************************************************************)
SetupReturned == {"None", "newSubuserNames"}
\* this step is a setup call
SetupCall == setupCalls' = setupCalls + 1
\* both recorded helper containers are in the engine
HelperContainersExist ==
  \A k \in StatusKeys :
    serviceStatus[k] # NoCid /\ containers[serviceStatus[k]] # "absent"
\* both recorded helper containers are running
HelperContainersRunning ==
  \A k \in StatusKeys :
    serviceStatus[k] # NoCid /\ containers[serviceStatus[k]] = "running"

\* C1: isSetup() is false before any setup call, true after a setup call
\* returns and true from then on; a setup call on a bridge that is set up
\* is a no-op that invokes create-instance for neither helper, so that after
\* a first setup call that returns each helper has been created exactly once.
C1_SetupIdempotent ==
  /\ ~isSetup(subusers)
  /\ [][/\ setupCalls' = 0 => ~isSetup(subusers')
        /\ SetupCall /\ ret' \in SetupReturned => isSetup(subusers')
        /\ SetupCall /\ setupCalls = 0 /\ ret' \in SetupReturned
             => \A n \in HelperNames : createCalls'[n] = 1
        /\ isSetup(subusers)
             => /\ isSetup(subusers')
                /\ createCalls' = createCalls
                /\ subusers' = subusers
                /\ serviceSubusers' = serviceSubusers
        /\ SetupCall /\ isSetup(subusers) => ret' = "None"
       ]_vars

\* a second setup call has returned after a first one that returned
C1_Witness ==
  /\ setupCalls = 2
  /\ firstSetup = "returned"
  /\ op = "setup"
  /\ ret = "None"
  /\ isSetup(subusers)
  /\ \A n \in HelperNames : createCalls[n] = 1

\* C2: after stop returns with the debug override unset, the bridge-private
\* volume directory does not exist, whatever the server helper left in it.
C2_StopRemovesVolume ==
  (pc = "idle" /\ op = "stop" /\ ret = "None" /\ DebugVar \notin environ)
    => ~volume.vol

\* C3: a start whose createAndSetupSpecialVolumes finds a directory left
\* over (its own cleanUp could not delete it) succeeds: the privileged
\* cleanup container runs, the retry returns normally with both directories
\* present, and start goes on to launch the helpers.
C3_StaleStartSucceeds ==
  (isSetup(subusers) /\ volumesCall.stale)
    => /\ volumesCall.raised = ""
       /\ volumesCall.cleanups >= 1
       /\ pc = "launchServer" => exists(volume, "x11") /\ exists(volume, "home")
       /\ ~(pc = "idle" /\ op = "start" /\ ret = "OSError")

\* C4: isRunning returns true only if both recorded containers are running,
\* and when it returns false every recorded container the engine had as
\* present but not running has been removed from the engine.
C4_IsRunningRemovesStopped ==
  [][IsRunning
       => /\ ret' = "True" => HelperContainersRunning
          /\ ret' = "False"
               => \A k \in StatusKeys :
                    (serviceStatus[k] # NoCid
                       /\ containers[serviceStatus[k]] = "stopped")
                      => containers'[serviceStatus[k]] = "absent"
    ]_vars

\* C5: isRunning called next after a start that returned the status returns
\* true, given no recorded helper container has ended on its own; isRunning
\* called next after a stop that returned returns false.
C5_RunningAfterStartNotAfterStop ==
  [][IsRunning
       => /\ (op = "start" /\ ret = "serviceStatus" /\ ~exited)
               => ret' = "True"
          /\ (op = "stop" /\ ret = "None") => ret' = "False"
    ]_vars

\* isRunning has answered true after a start
C5_Witness ==
  /\ op = "isRunning"
  /\ ret = "True"
  /\ ~exited
  /\ HelperContainersRunning

\* C6 as claimed: between operations, both helper instances are registered
\* iff isSetup() is true, and the two helper containers exist in the engine
\* iff the bridge is running.
C6_ContainersExistIffRunning ==
  pc = "idle"
    => /\ (HelperNames \subseteq subusers) <=> isSetup(subusers)
       /\ HelperContainersExist <=> HelperContainersRunning

\* C6 as amended: between operations, both helper instances are registered
\* iff isSetup() is true, and whenever the bridge is running (isRunning
\* answers true) both helper containers exist in the engine; the converse
\* does not hold.
C6_ContainersExistIfRunning ==
  pc = "idle"
    => /\ (HelperNames \subseteq subusers) <=> isSetup(subusers)
       /\ isRunning(serviceStatus, containers).ret = "True"
            => HelperContainersExist

\* the bridge is set up and running, between operations
C6_Witness ==
  /\ pc = "idle"
  /\ isSetup(subusers)
  /\ isRunning(serviceStatus, containers).ret = "True"
  /\ HelperContainersExist

(***************************************************************************)
(* Properties of the lineage (specification SpecLineage).                  *)
(***************************************************************************)
\* the image and all its ancestors, by the engine's parent metadata
Chain == Ancestry(imageProperties, {imageId}, MaxImages)
\* the engine has the metadata of the image and of every ancestor
ChainComplete == \A i \in Chain : i \in Images /\ imageProperties[i].known
\* position of a layer id in a sequence of distinct layer ids
Position(layers, id) == CHOOSE j \in 1..Len(layers) : layers[j] = id

\* C7: for an image whose parent chain has N links and whose ancestors all
\* have metadata, getLineageLayers returns exactly N+1 ids, the first one
\* the root (no parent), the last one the image itself, each other id
\* immediately preceded by its parent.
C7_LineageLayersRootToSelf ==
  (imageOp = "getLineageLayers" /\ ChainComplete)
    => LET N == Cardinality(Chain) - 1
       IN
       /\ Len(imageRet) = N + 1
       /\ imageRet[Len(imageRet)] = imageId
       /\ imageProperties[imageRet[1]].Parent = NoParent
       /\ \A i \in 2..Len(imageRet) :
            imageProperties[imageRet[i]].Parent = imageRet[i - 1]

\* getLineageLayers has answered for a chain of two links
C7_Witness ==
  /\ imageOp = "getLineageLayers"
  /\ ChainComplete
  /\ Cardinality(Chain) = 3
  /\ Len(imageRet) = 3

\* C8: getImageLineage returns exactly the entries of the registered layers
\* of getLineageLayers(): every element is the entry of a registered layer,
\* every registered layer has its entry in it, once, and the entries are in
\* the order of their layers.
C8_ImageLineageRegisteredSubsequence ==
  imageOp = "getImageLineage"
    => LET layers == getLineageLayers(imageProperties, imageId)
           regs == {j \in 1..Len(layers) : layers[j] \in installedImages}
       IN  /\ Len(imageRet) = Cardinality(regs)
           /\ \A i \in 1..Len(imageRet) :
                /\ imageRet[i].imageId \in installedImages
                /\ \E j \in 1..Len(layers) : layers[j] = imageRet[i].imageId
           /\ \A j \in regs :
                \E i \in 1..Len(imageRet) : imageRet[i].imageId = layers[j]
           /\ \A i, k \in 1..Len(imageRet) :
                i < k => Position(layers, imageRet[i].imageId)
                           < Position(layers, imageRet[k].imageId)

\* the example of a chain A, B, C(self) with A and C registered
C8_Witness ==
  /\ imageOp = "getImageLineage"
  /\ Len(getLineageLayers(imageProperties, imageId)) = 3
  /\ getLineageLayers(imageProperties, imageId)[2] \notin installedImages
  /\ Len(imageRet) = 2

(***************************************************************************)
(* Properties of the update check (specification SpecUpdates).             *)
(***************************************************************************)
\* C9: over any sequence of checkForUpdates calls on one entry, the first
\* call performs the check (it runs the existence probe, unless the catalog
\* lookup raises before it), every later call returns false and runs no
\* container whatever the script would return, and the engine is probed at
\* most once.
C9_UpdateCheckMemoized ==
  /\ updateCalls = 0 /\ testRuns = 0 /\ scriptRuns = 0
  /\ [][/\ updateCalls = 0 => (imageRet' = "KeyError" \/ testRuns' = 1)
        /\ updateCalls >= 1
             => /\ imageRet' = "False"
                /\ testRuns' = testRuns
                /\ scriptRuns' = scriptRuns
        /\ testRuns' <= 1 /\ scriptRuns' <= 1
       ]_vars

\* a later call has returned false although probe and script would exit 0
C9_Witness ==
  /\ updateCalls >= 2
  /\ testRuns = 1
  /\ updateInput = [source |-> TRUE, test |-> 0, script |-> 0]
  /\ imageRet = "False"

\* C10: the first checkForUpdates call returns true iff the existence probe
\* exits 0 and the script then exits 0; when the probe exits non-zero the
\* call returns false and the script is never executed.
C10_UpdateIffProbeAndScriptSucceed ==
  updateCalls = 1
    => /\ imageRet = "True"
            <=> /\ testRuns = 1 /\ updateInput.test = 0
                /\ scriptRuns = 1 /\ updateInput.script = 0
       /\ (testRuns = 1 /\ updateInput.test # 0)
            => imageRet = "False" /\ scriptRuns = 0

\* a first call has found the script missing
C10_Witness ==
  /\ updateCalls = 1
  /\ testRuns = 1
  /\ updateInput.test # 0
  /\ updateInput.script = 0
  /\ imageRet = "False"
  /\ scriptRuns = 0

(***************************************************************************)
(* Properties of the order of start and stop (specification Spec).         *)
(***************************************************************************)
\* the step launches the server-role helper
ServerLaunched == serviceStatus'[ServerCidKey] # serviceStatus[ServerCidKey]
\* the step launches the client-role helper
ClientLaunched == serviceStatus'[ClientCidKey] # serviceStatus[ClientCidKey]
\* both files the readiness wait polls for are there
BothSocketsExist == socketExists(volume, "x11") /\ socketExists(volume, "home")

\* C11: in every execution of start, cleanUp runs before the special volumes
\* are created, the server helper is launched before the client helper, the
\* server's container identity is recorded in the status before the
\* readiness wait, and the client helper is launched only after a wait that
\* returned in a state where both X100 and the client-facing socket existed.
C11_StartOrder ==
  [][/\ pc' = "createVolumes" /\ pc # "createVolumes"
          => pc = "idle" /\ \E first \in TreeNames :
                              volume' = cleanUp(volume, first)
     /\ volumesCall' # volumesCall => pc = "createVolumes"
     /\ ServerLaunched
          => /\ pc = "launchServer"
             /\ ~ClientLaunched
             /\ pc' = "wait"
     /\ pc' = "wait" /\ pc # "wait"
          => /\ serviceStatus'[ServerCidKey] # NoCid
             /\ serviceStatus'[ServerCidKey] # serviceStatus[ServerCidKey]
             /\ containers'[serviceStatus'[ServerCidKey]] = "running"
     /\ pc' = "launchClient" /\ pc # "launchClient"
          => pc = "wait" /\ BothSocketsExist
     /\ ClientLaunched
          => /\ pc = "launchClient"
             /\ serviceStatus[ServerCidKey] # NoCid
             /\ serviceStatus'[ClientCidKey] > serviceStatus[ServerCidKey]
    ]_vars

\* start has gone through the wait and launched both helpers
C11_Witness ==
  /\ op = "start"
  /\ ret = "serviceStatus"
  /\ volumesCall.raised = ""
  /\ serviceStatus[ServerCidKey] # NoCid
  /\ serviceStatus[ClientCidKey] > serviceStatus[ServerCidKey]

\* C12: within one createAndSetupSpecialVolumes call the privileged cleanup
\* container is executed at most once; a directory that still exists after
\* that one clear-and-retry cycle makes the call raise instead of running
\* the container again.
C12_AtMostOneCleanup == volumesCall.cleanups <= 1

\* C16: in every execution of stop(status) the client container is stopped
\* first and the server container second, cleanUp runs only after both stop
\* calls and only when the debug override is unset, and with the override
\* set stop leaves the volume directory as it was.
C16_StopOrder ==
  [][/\ pc = "idle" /\ pc' = "stopServer"
          => /\ containers'[serviceStatus[ClientCidKey]] # "running"
             /\ \A cid \in Cids \ {serviceStatus[ClientCidKey]} :
                  containers'[cid] = containers[cid]
             /\ volume' = volume
     /\ pc' = "stopServer" => pc \in {"idle", "stopServer"}
     /\ pc = "stopServer" /\ pc' = "stopCleanUp"
          => /\ containers'[serviceStatus[ServerCidKey]] # "running"
             /\ containers'[serviceStatus[ClientCidKey]] # "running"
             /\ volume' = volume
     /\ pc' = "stopCleanUp" => pc \in {"stopServer", "stopCleanUp"}
     /\ pc = "stopCleanUp" /\ pc' = "idle"
          => /\ op' = "stop"
             /\ IF DebugVar \in environ
                THEN volume' = volume
                ELSE \E first \in TreeNames :
                       volume' = cleanUp(volume, first)
    ]_vars

\* stop has returned with the debug override set and the volume kept
C16_Witness ==
  /\ op = "stop"
  /\ ret = "None"
  /\ DebugVar \in environ
  /\ volume.vol
  /\ \A k \in StatusKeys :
       serviceStatus[k] # NoCid /\ containers[serviceStatus[k]] # "running"

(***************************************************************************)
(* Properties of setup on a partly registered bridge (specification Spec). *)
(***************************************************************************)
\* how many times a name is listed among the owner's service subusers
Listed(list, name) == Cardinality({i \in DOMAIN list : list[i] = name})

\* C19: setup never invokes create-instance for a helper name that is
\* already registered; from every registry state, one with exactly one
\* helper registered included, a setup call that returns has created only
\* the missing helpers and leaves each helper registered and listed as a
\* service subuser of the owner exactly once.
C19_SetupCreatesOnlyMissing ==
  [][SetupCall
       => /\ \A n \in HelperNames :
               n \in subusers => createCalls'[n] = createCalls[n]
          /\ ret' \in SetupReturned
               => \A n \in HelperNames :
                    n \in subusers' /\ Listed(serviceSubusers', n) = 1
    ]_vars

(***************************************************************************)
(* Properties of the lineage with missing metadata (SpecLineage).          *)
(***************************************************************************)
\* C17: when the engine has no metadata for some ancestor of the image,
\* getLineageLayers returns the chain truncated at the gap: the ids from
\* the child of the missing ancestor down to the image itself, each
\* preceded by its parent, and the empty sequence when the image itself has
\* no metadata; on every acyclic parent metadata the walk ends, with at
\* most one id per image.
C17_LineageTruncatedAtGap ==
  imageOp = "getLineageLayers"
    => /\ Len(imageRet) <= MaxImages
       /\ ~ChainComplete
            => IF ~imageProperties[imageId].known
               THEN imageRet = <<>>
               ELSE /\ Len(imageRet) >= 1
                    /\ imageRet[Len(imageRet)] = imageId
                    /\ \A i \in 1..Len(imageRet) :
                         imageProperties[imageRet[i]].known
                    /\ \A i \in 2..Len(imageRet) :
                         imageProperties[imageRet[i]].Parent = imageRet[i - 1]
                    /\ imageProperties[imageRet[1]].Parent # NoParent
                    /\ ~imageProperties[
                          imageProperties[imageRet[1]].Parent].known

\* getLineageLayers has answered for an image whose grandparent has no
\* metadata
C17_Witness ==
  /\ imageOp = "getLineageLayers"
  /\ ~ChainComplete
  /\ Len(imageRet) = 2
  /\ ~imageProperties[imageProperties[imageRet[1]].Parent].known

(***************************************************************************)
(* Properties of the update memo (specification SpecUpdates).              *)
(***************************************************************************)
\* C20: an entry is marked as already checked for updates only once the
\* existence probe has been run on it, so that after a first call that
\* failed with the catalog lookup error a later call still runs the probe
\* instead of returning false.
C20_MarkedOnlyAfterProbe ==
  [][/\ alreadyCheckedForUpdates' = "True" => testRuns' >= 1
     /\ (imageRet = "KeyError" /\ testRuns = 0 /\ updateInput'.source)
          => testRuns' = 1
    ]_vars

(***************************************************************************)
(* Properties of removeCachedRuntimes (SpecCache, SpecCacheConcurrent).    *)
(***************************************************************************)
\* the call of process p has ended
CacheDone(p) == cachePc[p] = "done"

\* C13 as claimed: removeCachedRuntimes processes every record of the
\* runtime-cache directory: it attempts to remove the record's run-ready
\* image and, whether the removal succeeds or fails with ImageNotFound or
\* ContainerDependencyExists, deletes the record and goes on with the
\* remaining records; a missing cache directory is a no-op without error.
C13_EveryRecordDeleted ==
  \A p \in callers :
    CacheDone(p)
      => /\ cacheResult[p] = "returned"
         /\ cacheListed[p] \cap cacheRecords = {}
         /\ \A r \in cacheListed[p] :
              runReadyImageId(r) \in engineImages
                => runReadyImageId(r) \in imagesInUse

\* C13 as amended: removeCachedRuntimes processes every record of the
\* runtime-cache directory: it attempts to remove the record's run-ready
\* image; when the removal succeeds or fails with ImageNotFound it deletes
\* the record, when it fails with ContainerDependencyExists it keeps the
\* record; in each case it goes on with the remaining records; a missing
\* cache directory is a no-op without error.
C13_RecordKeptWhenImageInUse ==
  \A p \in callers :
    CacheDone(p)
      => /\ cacheResult[p] = "returned"
         /\ \A r \in cacheListed[p] :
              /\ r \in cacheRecords <=> runReadyImageId(r) \in imagesInUse
              /\ runReadyImageId(r) \in engineImages
                   => runReadyImageId(r) \in imagesInUse
         /\ ~cacheDir => cacheRecords = {} /\ cacheListed[p] = {}

\* a call has returned after deleting one record and keeping another
C13_Witness ==
  /\ CacheDone(1)
  /\ cacheResult[1] = "returned"
  /\ \E r \in cacheListed[1] : r \in cacheRecords
  /\ \E r \in cacheListed[1] :
       r \notin cacheRecords /\ runReadyImageId(r) \notin engineImages

\* C14: when two processes run removeCachedRuntimes on the same image at
\* once, under every interleaving of their directory listings, record
\* reads, engine image removals and record deletions, neither call raises
\* an error to its caller.
C14_NoCallRaises ==
  \A p \in Procs : cacheResult[p] \in {"none", "returned"}

\* both calls have returned, one of them after finding a record it had
\* listed deleted by the other
C14_Witness ==
  /\ \A p \in Procs : CacheDone(p) /\ cacheResult[p] = "returned"
  /\ \E p \in Procs : cacheListing[p] # <<>>
  /\ \E p \in Procs : cacheListing[p] = <<>> /\ cacheListed[p] # {}

(***************************************************************************)
(* Properties of the readiness wait (specification SpecStart).             *)
(***************************************************************************)
\* start has returned the status with both container identities
StartReturnedStatus ==
  /\ pc = "idle"
  /\ op = "start"
  /\ ret = "serviceStatus"
  /\ \A k \in StatusKeys : serviceStatus[k] # NoCid

\* C15: start ends exactly when the readiness signal arrives.  With the
\* polling loop scheduled fairly, once the server helper of a bridge that
\* is set up has made both socket files, start launches the client and
\* returns the status with both container identities; as long as one of the
\* two files is missing start stays in the wait, launches no client and
\* does not return.
C15_StartEndsWhenReady ==
  /\ (pc = "wait" /\ BothSocketsExist /\ isSetup(subusers))
       ~> StartReturnedStatus
  /\ [][(pc = "wait" /\ ~BothSocketsExist)
          => /\ pc' = "wait"
             /\ ~ClientLaunched
             /\ op' = op /\ ret' = ret
       ]_vars

\* start has returned the status while both socket files are there
C15_Witness ==
  /\ StartReturnedStatus
  /\ BothSocketsExist
  /\ isSetup(subusers)

(***************************************************************************)
(* Properties of start under interleaving (specification SpecInterleaved). *)
(***************************************************************************)
\* C18: start, stop and cleanUp of one bridge are not safe under
\* interleaving.  A cleanUp of another process on the same subuser can
\* delete the volume directory, socket files included, of a server helper
\* that a start has launched and is waiting for (the state of C18_Witness);
\* from then on that start stays in its readiness wait: no step of the start
\* or of its server helper brings the volume directory back.
C18_WaitNeverCompletesAfterCleanUp ==
  [][(pc = "wait" /\ ~volume.vol)
       => /\ pc' = "wait"
          /\ ~volume'.vol
          /\ ~socketExists(volume', "x11")
          /\ ~socketExists(volume', "home")
    ]_vars

\* a start waits for a running server helper whose volume directory another
\* process has deleted
C18_Witness ==
  /\ pc = "wait"
  /\ isSetup(subusers)
  /\ containers[serviceStatus[ServerCidKey]] = "running"
  /\ ~volume.vol
  /\ volumesCall.raised = ""

====
